---- MODULE Spec2Model ----
(***************************************************************************)
(* Season detail page of the melamine timeline client: the reference       *)
(* timeline calculator, the actionability predicate, the edit guards and   *)
(* the row-update validator of src/src/pages/SeasonDetailPage.js, with the *)
(* remarks dialog of src/src/components/seasons.                           *)
(*                                                                         *)
(* Conventions of the translation                                          *)
(*  - an order code is the sequence of its letters' ranks: "A" is <<1>>,   *)
(*    "Z" is <<26>>, "AA" is <<1, 1>>; String.length is Len and            *)
(*    localeCompare of two upper-case codes is the lexicographic order;    *)
(*  - an instant is an integer count of half days since an epoch day, so a *)
(*    calendar day holds two instants (its morning and its afternoon);     *)
(*  - a JavaScript value that may be null/undefined is a sequence of       *)
(*    length 0 (absent) or 1 (present).                                    *)
(***************************************************************************)
EXTENDS Integers, Sequences, FiniteSets, TLC

VARIABLES
    tlTasks,            \* calculateReferenceTimeline: argument tasks
    tlCreatedAt,        \* calculateReferenceTimeline: argument seasonCreationDate
    tlResult,           \* <<>> before the call, <<loop state at return>> after
    guardInput,         \* the edit guards: [user, authLoading, season, tasks]
    guardResult,        \* <<>> before they are evaluated, <<decisions>> after
    rowInput,           \* handleProcessRowUpdate: arguments [newRow, oldRow]
    rowResult,          \* <<>> before the call, <<[outcome, payload]>> after
    attempt,            \* what the last handler called on a snapshot reported
    currentUser,        \* useAuth().user: absent, or [role, department]
    authLoading,        \* useAuth().loading
    seasonDetails,      \* absent, or [status, createdAt]
    taskList,           \* the rows of the grid
    loading,
    rowModesModel,      \* the ids of the rows whose mode is GridRowModes.Edit
    isUpdating,         \* the busy gate
    selectedStatus,     \* the status control's selection, "" at first
    referenceTimeline,
    editModalOpen,      \* the EditSeasonModal's open prop
    pending             \* the persistence calls that have not returned

tlVars == <<tlTasks, tlCreatedAt, tlResult>>

guardVars == <<guardInput, guardResult>>

rowVars == <<rowInput, rowResult>>

attemptVars == <<attempt>>

modalVars == <<editModalOpen>>

pageVars == <<currentUser, authLoading, seasonDetails, taskList, loading,
              rowModesModel, isUpdating, selectedStatus, referenceTimeline,
              editModalOpen, pending>>

vars == <<tlTasks, tlCreatedAt, tlResult, guardInput, guardResult, rowInput, rowResult, attempt, currentUser, authLoading, seasonDetails,
          taskList, loading, rowModesModel, isUpdating, selectedStatus,
          referenceTimeline, editModalOpen, pending>>

----------------------------------------------------------------------------
(* Bounds of the model *)

MaxTasks == 3
MaxLeadTime == 2
\* rows of the page's snapshots
MaxRows == 2
\* latest instant a date editor is given
MaxInstant == 4

MaxInFlight == 2

----------------------------------------------------------------------------
(* Values *)

None == <<>>
Some(x) == <<x>>

\* moment's unit 'day' in instants
DayLength == 2

\* moment(t).startOf('day')
StartOfDay(t) == t - (t % DayLength)

\* moment(t).add(n, 'days')
AddInstants(t, n) == t + n

AddDays(t, n) == t + n * DayLength

\* order codes "A", "B", "Z", "AA" and a code "Q" that the graphs never assign
CodeA == <<1>>
CodeB == <<2>>
CodeZ == <<26>>
CodeAA == <<1, 1>>
CodeQ == <<17>>

----------------------------------------------------------------------------
(* Display order of order codes *)

RECURSIVE localeCompare(_, _)
localeCompare(a, b) ==
    IF a = <<>> THEN (IF b = <<>> THEN 0 ELSE -1)
    ELSE IF b = <<>> THEN 1
    ELSE IF Head(a) < Head(b) THEN -1
    ELSE IF Head(a) > Head(b) THEN 1
    ELSE localeCompare(Tail(a), Tail(b))

CompareOrderLexOnly(a, b) == localeCompare(a.order, b.order)

CompareOrder(a, b) ==
    IF Len(a.order) < Len(b.order) THEN -1
    ELSE IF Len(a.order) > Len(b.order) THEN 1
    ELSE localeCompare(a.order, b.order)

\* Array.prototype.sort is stable: an element goes after every element that
\* does not compare greater than it.
RECURSIVE InsertByOrder(_, _)
InsertByOrder(s, t) ==
    IF s = <<>> THEN <<t>>
    ELSE IF CompareOrder(Head(s), t) > 0 THEN <<t>> \o s
    ELSE <<Head(s)>> \o InsertByOrder(Tail(s), t)

RECURSIVE SortByOrder(_)
SortByOrder(s) ==
    IF s = <<>> THEN <<>>
    ELSE InsertByOrder(SortByOrder(SubSeq(s, 1, Len(s) - 1)), s[Len(s)])

----------------------------------------------------------------------------
(* calculateReferenceTimeline *)

EmptyMap == <<>>

\* a lookup by the place in the array that the code's letter names ("A" the
\* first task), not by the code the task holds
TasksByPosition(tasks, code) ==
    IF Len(code) = 1 /\ code[1] <= Len(tasks) THEN code[1] ELSE 0

\* new Map(tasks.map(task => [task.order, task])).get(code): the index of the
\* last task holding the code, 0 when the map has no such key
TasksByOrder(tasks, code) ==
    LET hits == {i \in 1..Len(tasks) : tasks[i].order = code}
    IN IF hits = {} THEN 0 ELSE CHOOSE i \in hits : \A j \in hits : j <= i

\* a failsafe that stops before every task had a pass of its own
MaxIterationsTight(tasks) == Len(tasks) - 1

MaxIterations(tasks) == Len(tasks) + 5

\* if (moment(precedingEndDate).isAfter(maxPrecedingEndDate)) maxPrecedingEndDate = ...
EarlierEndDate(precedingEndDate, maxEnd) ==
    IF precedingEndDate < maxEnd THEN precedingEndDate ELSE maxEnd

LaterEndDate(precedingEndDate, maxEnd) ==
    IF precedingEndDate > maxEnd THEN precedingEndDate ELSE maxEnd

\* the else branch of the loop: canCalculate = false; break
DependencyIgnored(maxEnd) == [canCalculate |-> TRUE, maxPrecedingEndDate |-> maxEnd]

DependencyNotCalculated(maxEnd) == [canCalculate |-> FALSE, maxPrecedingEndDate |-> maxEnd]

\* the for..of loop over task.precedingTasks, from index i on
RECURSIVE PrecedingLoop(_, _, _, _, _)
PrecedingLoop(tasks, timeline, preds, i, maxEnd) ==
    IF i > Len(preds) THEN [canCalculate |-> TRUE, maxPrecedingEndDate |-> maxEnd]
    ELSE LET k == TasksByOrder(tasks, preds[i])
         IN IF k # 0 /\ tasks[k]._id \in DOMAIN timeline
            THEN PrecedingLoop(tasks, timeline, preds, i + 1,
                    LaterEndDate(timeline[tasks[k]._id].end, maxEnd))
            ELSE DependencyNotCalculated(maxEnd)

\* sortedTasks.forEach(...), from index i on; acc carries the timeline and
\* processedInThisIteration
RECURSIVE ForEachTask(_, _, _, _, _)
ForEachTask(tasks, sorted, created, i, acc) ==
    IF i > Len(sorted) THEN acc
    ELSE LET task == sorted[i]
         IN IF task._id \in DOMAIN acc.timeline
            THEN ForEachTask(tasks, sorted, created, i + 1, acc)
            ELSE LET r == PrecedingLoop(tasks, acc.timeline, task.precedingTasks, 1, created)
                 IN IF r.canCalculate
                    THEN ForEachTask(tasks, sorted, created, i + 1,
                            [timeline |-> acc.timeline @@
                                (task._id :> [start |-> r.maxPrecedingEndDate,
                                              end |-> AddDays(r.maxPrecedingEndDate, task.leadTime)]),
                             processed |-> acc.processed + 1])
                    ELSE ForEachTask(tasks, sorted, created, i + 1, acc)

\* the while loop; st is [timeline, tasksToProcess, iterations, unresolved]
RECURSIVE TimelineLoop(_, _, _, _)
TimelineLoop(tasks, sorted, created, st) ==
    IF st.tasksToProcess > 0 /\ st.iterations < MaxIterations(tasks)
    THEN LET r == ForEachTask(tasks, sorted, created, 1,
                      [timeline |-> st.timeline, processed |-> 0])
             left == st.tasksToProcess - r.processed
             next == [timeline |-> r.timeline, tasksToProcess |-> left,
                      iterations |-> st.iterations + 1, unresolved |-> FALSE]
         IN IF r.processed = 0 /\ left > 0
            THEN [next EXCEPT !.unresolved = TRUE]
            ELSE TimelineLoop(tasks, sorted, created, next)
    ELSE st

\* the whole call, with the loop counters it returns with
TimelineRun(tasks, created) ==
    IF Len(tasks) = 0
    THEN [timeline |-> EmptyMap, tasksToProcess |-> 0, iterations |-> 0, unresolved |-> FALSE]
    ELSE TimelineLoop(tasks, SortByOrder(tasks), created,
            [timeline |-> EmptyMap, tasksToProcess |-> Len(tasks),
             iterations |-> 0, unresolved |-> FALSE])

calculateReferenceTimeline(tasks, created) == TimelineRun(tasks, created).timeline

----------------------------------------------------------------------------
(* Inputs of the timeline calculator *)

\* the codes given to the tasks of a graph of n tasks
GraphCodes(n) == SubSeq(<<CodeA, CodeZ, CodeAA, CodeB>>, 1, n)

\* precedingTasks lists: none, one code, or two codes that are neighbours in
\* the ring of the graph's codes closed by CodeQ (which names no task)
PredLists(n) ==
    LET ring == GraphCodes(n) \o <<CodeQ>>
    IN {<<>>} \cup {<<ring[i]>> : i \in 1..(n + 1)}
       \cup {<<ring[i], ring[(i % (n + 1)) + 1]>> : i \in 1..(n + 1)}

\* which code each task of the input array gets: in array order, in reverse,
\* or rotated by one
CodeOrders(n) ==
    {[i \in 1..n |-> i], [i \in 1..n |-> n + 1 - i], [i \in 1..n |-> (i % n) + 1]}

Task(id, order, preds, lead, status, responsible, computedStart, actualCompletion, remarks) ==
    [_id |-> id, order |-> order, precedingTasks |-> preds, leadTime |-> lead,
     status |-> status, responsible |-> responsible,
     computedDates |-> [start |-> computedStart],
     actualCompletion |-> actualCompletion, remarks |-> remarks]

GraphTask(id, order, preds, lead) ==
    Task(id, order, preds, lead, "pending", <<>>, None, None, "")

\* the graphs of MaxTasks tasks: every choice of predecessor lists, three
\* assignments of codes to array positions, lead times (id + shift) modulo
\* MaxLeadTime + 1
GeneratedGraphs ==
    {[i \in 1..MaxTasks |->
        GraphTask(i, GraphCodes(MaxTasks)[perm[i]], preds[i], (i + shift) % (MaxLeadTime + 1))] :
        preds \in [1..MaxTasks -> PredLists(MaxTasks)],
        perm \in CodeOrders(MaxTasks),
        shift \in 0..MaxLeadTime}

\* createdAt 2024-01-01 (day 0); A: lead time 5, no predecessors; B: lead time
\* 3, predecessors [A]
ExampleGraph ==
    <<GraphTask(1, CodeA, <<>>, 5), GraphTask(2, CodeB, <<CodeA>>, 3)>>

\* tasks arriving with the codes Z, AA, B, A
UnsortedExample ==
    <<GraphTask(1, CodeZ, <<>>, 1), GraphTask(2, CodeAA, <<CodeZ>>, 1),
      GraphTask(3, CodeB, <<>>, 0), GraphTask(4, CodeA, <<CodeB>>, 1)>>

\* the generated graphs are created in the afternoon of day 1, the examples
\* at the start of day 0
TimelineInputs ==
    {[tasks |-> g, created |-> DayLength + 1] : g \in GeneratedGraphs}
    \cup {[tasks |-> ExampleGraph, created |-> 0],
          [tasks |-> UnsortedExample, created |-> 0],
          [tasks |-> <<>>, created |-> 0]}

----------------------------------------------------------------------------
(* Strings and users *)

\* String.prototype.toLowerCase on the strings of the model
toLowerCase(str) ==
    CASE str = "Admin" -> "admin"
      [] str = "Planner" -> "planner"
      [] str = "PLANNER" -> "planner"
      [] str = "User" -> "user"
      [] str = "Sales" -> "sales"
      [] str = "QA" -> "qa"
      [] OTHER -> str

\* currentUser.department: isCellEditable reads department.name on every row
\* it renders, which throws for a string, so a user of this page has an
\* object with a name, or no department
NoDepartment == [type |-> "undefined", name |-> ""]
Department(name) == [type |-> "object", name |-> name]

Users ==
    {[role |-> "Admin", department |-> NoDepartment],
     [role |-> "PLANNER", department |-> Department("QA")],
     [role |-> "User", department |-> Department("sales")],
     [role |-> "User", department |-> Department("QA")]}

Statuses == {"pending", "completed", "blocked"}

SeasonStatuses == {"Open", "On-Hold", "Closed", "Canceled"}

----------------------------------------------------------------------------
(* Snapshots that persistence returns *)

\* the predecessor lists of the rows: every row names the row before it,
\* except that the last row may name the unheld code CodeQ instead or as well
RowGraphs == {"chain", "dangling", "mixed"}

RowPreds(graph, i) ==
    IF i = 1 THEN <<>>
    ELSE IF i < MaxRows \/ graph = "chain" THEN <<GraphCodes(MaxRows)[i - 1]>>
    ELSE IF graph = "dangling" THEN <<CodeQ>>
    ELSE <<GraphCodes(MaxRows)[i - 1], CodeQ>>

\* row i: planned to start on day 1 (rows with an odd id in the morning, the
\* others in the afternoon; the last row of the "dangling" graph has no
\* planned start); completed rows were completed on day 2
Row(graph, i, status) ==
    Task(i, GraphCodes(MaxRows)[i], RowPreds(graph, i), i % (MaxLeadTime + 1), status,
         IF i % 2 = 1 THEN <<"Sales">> ELSE <<"QA">>,
         IF graph = "dangling" /\ i = MaxRows THEN None ELSE Some(DayLength + ((i + 1) % 2)),
         IF status = "completed" THEN Some(2 * DayLength) ELSE None,
         IF i = 1 THEN "" ELSE "note")

Reverse(s) == [i \in 1..Len(s) |-> s[Len(s) + 1 - i]]

\* the task arrays of a graph: every assignment of statuses; persistence
\* returns the rows from the last id to the first
TaskArrays(graph) ==
    {Reverse([i \in 1..MaxRows |-> Row(graph, i, st[i])]) : st \in [1..MaxRows -> Statuses]}

AllTaskArrays == UNION {TaskArrays(g) : g \in RowGraphs}

\* the graph of the rows on display
GraphOf(rows) ==
    CHOOSE g \in RowGraphs :
        \E i \in 1..Len(rows), st \in Statuses : rows[i] = Row(g, MaxRows, st)

\* what a later fetch returns: the graph on display with any statuses (any
\* array when nothing is on display)
FetchedArrays(rows) ==
    IF rows = <<>> THEN AllTaskArrays ELSE TaskArrays(GraphOf(rows))

\* what updateTaskInSeason returns for a payload sent for row id: the graph on
\* display, the row completed when the payload says so, and at most one other
\* row with another status
UpdatedArrays(rows, id, payload) ==
    IF rows = <<>> THEN AllTaskArrays
    ELSE {a \in TaskArrays(GraphOf(rows)) :
            /\ \A i, j \in 1..Len(rows) :
                    (a[i]._id = id /\ rows[j]._id = id) =>
                        a[i].status = (IF payload.status # None THEN "completed"
                                       ELSE rows[j].status)
            /\ Cardinality({i \in 1..Len(a) : \E j \in 1..Len(rows) :
                    /\ rows[j]._id = a[i]._id
                    /\ a[i]._id # id
                    /\ rows[j].status # a[i].status}) <= 1}

Seasons == {[status |-> st, createdAt |-> DayLength + 1] : st \in SeasonStatuses}

----------------------------------------------------------------------------
(* isTaskActionable *)

\* allTasks.find(t => t.order === code): the index of the first task holding
\* the code, 0 when there is none
FindByOrder(allTasks, code) ==
    LET hits == {i \in 1..Len(allTasks) : allTasks[i].order = code}
    IN IF hits = {} THEN 0 ELSE CHOOSE i \in hits : \A j \in hits : i <= j

\* precedingTask && precedingTask.status === 'completed'
PrecedingCompletedOrMissing(allTasks, k) == k = 0 \/ allTasks[k].status = "completed"

PrecedingCompleted(allTasks, k) == k # 0 /\ allTasks[k].status = "completed"

isTaskActionable(task, allTasks) ==
    IF task.status = "completed" \/ task.status = "blocked" THEN FALSE
    ELSE IF Len(task.precedingTasks) = 0 THEN TRUE
    ELSE \A k \in 1..Len(task.precedingTasks) :
            PrecedingCompleted(allTasks, FindByOrder(allTasks, task.precedingTasks[k]))

----------------------------------------------------------------------------
(* The edit guards *)

\* userRole === 'admin' || userRole === 'planner', userRole being
\* currentUser?.role?.toLowerCase()
RoleIsAdminOrPlannerExact(user) ==
    user # None /\ user[1].role \in {"admin", "planner"}

RoleIsAdminOrPlanner(user) ==
    user # None /\ toLowerCase(user[1].role) \in {"admin", "planner"}

\* Array.prototype.includes(value): a string element equals only a string
IncludesValue(array, value) ==
    \E i \in 1..Len(array) : value.type = "string" /\ array[i] = value.name

\* currentUser?.department
DepartmentOf(user) == IF user = None THEN NoDepartment ELSE user[1].department

\* the loop of handleEditClick over task.precedingTasks: false as soon as a
\* code names a task that is not completed
PredecessorsDone(task, tasks) ==
    ~\E k \in 1..Len(task.precedingTasks) :
        LET i == TasksByOrder(tasks, task.precedingTasks[k])
        IN i # 0 /\ tasks[i].status # "completed"

\* handleEditClick: the guard that stops the click, or "Allow"
EditClickGuard(user, task, tasks) ==
    IF toLowerCase(task.status) = "completed" /\ ~RoleIsAdminOrPlanner(user)
        THEN "CompletedLocked"
    ELSE IF toLowerCase(task.status) = "blocked"
        THEN "Blocked"
    ELSE IF toLowerCase(task.status) = "pending" /\ ~PredecessorsDone(task, tasks)
        THEN "PredecessorsIncomplete"
    ELSE IF ~RoleIsAdminOrPlanner(user) /\ ~IncludesValue(task.responsible, DepartmentOf(user))
        THEN "NotResponsibleDepartment"
    ELSE "Allow"

\* handleCellDoubleClick: whether it sets event.defaultMuiPrevented
DoubleClickPrevented(user, field, row) ==
    /\ field \in {"actualCompletion", "remarks"}
    /\ toLowerCase(row.status) = "completed"
    /\ ~RoleIsAdminOrPlanner(user)

\* responsibleDepartments.includes(userDepartment), both in lower case
ResponsibleIncludes(row, user) ==
    /\ DepartmentOf(user).type = "object"
    /\ \E i \in 1..Len(row.responsible) :
            toLowerCase(row.responsible[i]) = toLowerCase(DepartmentOf(user).name)

SeasonIsOpenOrAbsent(season) == season = None \/ season[1].status = "Open"

SeasonIsOpen(season) == season # None /\ season[1].status = "Open"

CellEditable(loadingAuth, user, season, row) ==
    IF loadingAuth \/ user = None \/ season = None THEN FALSE
    ELSE IF ~SeasonIsOpen(season) THEN FALSE
    ELSE IF toLowerCase(row.status) = "completed" /\ ~RoleIsAdminOrPlanner(user) THEN FALSE
    ELSE RoleIsAdminOrPlanner(user) \/ ResponsibleIncludes(row, user)

isCellEditable(row) == CellEditable(authLoading, currentUser, seasonDetails, row)

\* the columns' editable flags as the grid reads them: false for every column
\* but actualCompletion, whose flag is a function value, and the grid is given
\* no isCellEditable prop
ColumnEditable(field) == field = "actualCompletion"

Fields == {"name", "remarks", "actualCompletion"}

\* the row's Edit action: enabled by isCellEditable, then handleEditClick
EditActionAllows(loadingAuth, user, season, row, tasks) ==
    /\ CellEditable(loadingAuth, user, season, row)
    /\ EditClickGuard(user, row, tasks) = "Allow"

\* a double click on a cell: handleCellDoubleClick, then the grid's default,
\* which starts the row's edit mode from an editable column
DoubleClickAllows(user, field, row) ==
    /\ ~DoubleClickPrevented(user, field, row)
    /\ ColumnEditable(field)

\* the remarks dialog shows its text field and its Save button when isEditable
RemarksDialogAllows(loadingAuth, user, season, row) ==
    CellEditable(loadingAuth, user, season, row)

----------------------------------------------------------------------------
(* handleProcessRowUpdate, up to its call of persistence *)

\* moment(date).toISOString() and moment(isoString)
toISOString(t) == <<"iso", t>>

FromISOString(str) == str[2]

\* moment(a).isBefore(moment(b), 'day')
IsBeforeInstant(a, b) == a < b

IsBeforeDay(a, b) == StartOfDay(a) < StartOfDay(b)

\* a string that keeps the day of the instant only
CompletionStringOfDay(row) ==
    IF row.actualCompletion = None THEN None
    ELSE Some(toISOString(StartOfDay(row.actualCompletion[1])))

\* row.actualCompletion ? moment(row.actualCompletion).toISOString() : null
CompletionString(row) ==
    IF row.actualCompletion = None THEN None ELSE Some(toISOString(row.actualCompletion[1]))

\* apiPayload: a key is absent (None) or holds a value (Some); the value under
\* actualCompletion is itself null (None) or a string
EmptyPayload == [remarks |-> None, actualCompletion |-> None, status |-> None]

\* if (apiPayload.actualCompletion && newRow.status !== 'completed')
StatusAlways(payload, newRow) == [payload EXCEPT !.status = Some("completed")]

DerivedStatus(payload, newRow) ==
    IF payload.actualCompletion # None /\ payload.actualCompletion[1] # None
       /\ newRow.status # "completed"
    THEN [payload EXCEPT !.status = Some("completed")]
    ELSE payload

\* the outcome of the synchronous part: "rejected" (Promise.reject), "unchanged"
\* (return oldRow) or "request", with the payload built so far
RowUpdate(newRow, oldRow) ==
    LET withRemarks == IF newRow.remarks # oldRow.remarks
                       THEN [EmptyPayload EXCEPT !.remarks = Some(newRow.remarks)]
                       ELSE EmptyPayload
        oldCompletion == CompletionString(oldRow)
        newCompletion == CompletionString(newRow)
    IN IF /\ newCompletion # oldCompletion
          /\ newCompletion # None
          /\ newRow.computedDates.start # None
          /\ IsBeforeDay(FromISOString(newCompletion[1]), newRow.computedDates.start[1])
       THEN [outcome |-> "rejected", payload |-> withRemarks]
       ELSE LET withCompletion == IF newCompletion # oldCompletion
                                  THEN [withRemarks EXCEPT !.actualCompletion = Some(newCompletion)]
                                  ELSE withRemarks
                apiPayload == DerivedStatus(withCompletion, newRow)
            IN IF apiPayload = EmptyPayload
               THEN [outcome |-> "unchanged", payload |-> apiPayload]
               ELSE [outcome |-> "request", payload |-> apiPayload]

\* the call goes on to persistence only past both returns
IssuesRequestForPayload(update) == update.payload # EmptyPayload

IssuesRequest(update) == update.outcome = "request"

----------------------------------------------------------------------------
(* Persistence calls *)

FetchRequest ==
    [op |-> "getSeasonById", id |-> 0, payload |-> EmptyPayload, via |-> "",
     status |-> "", captured |-> "", data |-> ""]

UpdateTaskRequest(id, payload, via) ==
    [op |-> "updateTaskInSeason", id |-> id, payload |-> payload, via |-> via,
     status |-> "", captured |-> "", data |-> ""]

\* captured: seasonDetails.status as the handler's closure holds it
StatusRequest(status, captured) ==
    [op |-> "updateSeasonStatus", id |-> 0, payload |-> EmptyPayload, via |-> "",
     status |-> status, captured |-> captured, data |-> ""]

\* data: the name typed in the EditSeasonModal
DetailsRequest(data) ==
    [op |-> "updateSeasonDetails", id |-> 0, payload |-> EmptyPayload, via |-> "",
     status |-> "", captured |-> "", data |-> data]

----------------------------------------------------------------------------
(* The page *)

RowIndex(id) ==
    LET hits == {i \in 1..Len(taskList) : taskList[i]._id = id}
    IN IF hits = {} THEN 0 ELSE CHOOSE i \in hits : TRUE

RowIds == {taskList[i]._id : i \in 1..Len(taskList)}

RowById(id) == taskList[RowIndex(id)]

\* the effect on [seasonDetails]: the status control follows the season
SelectedStatusEffect(season, selected) ==
    IF season # None THEN season[1].status ELSE selected

\* the effect on [taskList, seasonDetails?.createdAt]
ReferenceTimelineEffect(tasks, season, timeline) ==
    IF Len(tasks) > 0 /\ season # None
    THEN calculateReferenceTimeline(tasks, season[1].createdAt)
    ELSE timeline

\* the status control is rendered for the roles 'Admin' and 'Planner'
StatusControlShown ==
    /\ currentUser # None
    /\ currentUser[1].role \in {"Admin", "Planner"}
    /\ seasonDetails # None

\* the Backdrop covers the page while isUpdating, the EditSeasonModal's Dialog
\* while it is open; the modal is rendered only with seasonDetails
EditSeasonModalShown ==
    /\ editModalOpen
    /\ seasonDetails # None

PageCovered == isUpdating \/ EditSeasonModalShown

\* the calls in flight are counted up to MaxInFlight
CanCall == Cardinality(pending) < MaxInFlight

\* useAuth() settles on a user
AuthLoaded ==
    /\ authLoading
    /\ \E u \in Users : currentUser' = Some(u)
    /\ authLoading' = FALSE
    /\ UNCHANGED <<seasonDetails, taskList, loading, rowModesModel, isUpdating,
                   selectedStatus, referenceTimeline, pending>>

\* fetchSeasonDetails, from the await on: the call returns data
FetchSuccess ==
    /\ FetchRequest \in pending
    /\ \E season \in Seasons, tasks \in FetchedArrays(taskList) :
        /\ seasonDetails' = Some(season)
        /\ taskList' = SortByOrder(tasks)
        /\ selectedStatus' = SelectedStatusEffect(Some(season), selectedStatus)
        /\ referenceTimeline' =
                ReferenceTimelineEffect(SortByOrder(tasks), Some(season), referenceTimeline)
    /\ loading' = FALSE
    /\ pending' = pending \ {FetchRequest}
    /\ UNCHANGED <<currentUser, authLoading, rowModesModel, isUpdating>>

\* fetchSeasonDetails, from the await on: the call throws
FetchFailure ==
    /\ FetchRequest \in pending
    /\ seasonDetails' = None
    /\ taskList' = <<>>
    /\ loading' = FALSE
    /\ pending' = pending \ {FetchRequest}
    /\ UNCHANGED <<currentUser, authLoading, rowModesModel, isUpdating,
                   selectedStatus, referenceTimeline>>

\* an attachment cell reports an upload: fetchSeasonDetails up to its await
Reload ==
    /\ taskList # <<>>
    /\ ~PageCovered
    /\ CanCall
    /\ FetchRequest \notin pending
    /\ loading' = TRUE
    /\ pending' = pending \cup {FetchRequest}
    /\ UNCHANGED <<currentUser, authLoading, seasonDetails, taskList, rowModesModel,
                   isUpdating, selectedStatus, referenceTimeline>>

\* the row's Edit action, enabled by isCellEditable
handleEditClick ==
    \E id \in RowIds :
        /\ ~PageCovered
        /\ id \notin rowModesModel
        /\ isCellEditable(RowById(id))
        /\ rowModesModel' =
                IF EditActionAllows(authLoading, currentUser, seasonDetails, RowById(id), taskList)
                THEN rowModesModel \cup {id}
                ELSE rowModesModel
        /\ UNCHANGED <<currentUser, authLoading, seasonDetails, taskList, loading,
                       isUpdating, selectedStatus, referenceTimeline, pending>>

\* a double click on a cell: handleCellDoubleClick, then the grid's default
handleCellDoubleClick ==
    \E id \in RowIds, field \in Fields :
        /\ ~PageCovered
        /\ rowModesModel' =
                IF DoubleClickAllows(currentUser, field, RowById(id))
                THEN rowModesModel \cup {id}
                ELSE rowModesModel
        /\ UNCHANGED <<currentUser, authLoading, seasonDetails, taskList, loading,
                       isUpdating, selectedStatus, referenceTimeline, pending>>

handleCancelClick ==
    \E id \in rowModesModel :
        /\ ~PageCovered
        /\ id \in RowIds
        /\ rowModesModel' = rowModesModel \ {id}
        /\ UNCHANGED <<currentUser, authLoading, seasonDetails, taskList, loading,
                       isUpdating, selectedStatus, referenceTimeline, pending>>

\* the values a row's editors can hold when it is saved
EditedCompletions == {None} \cup {Some(t) : t \in 1..MaxInstant}

EditedRemarks(row) == {row.remarks, "edited"}

\* handleSaveClick, then the grid's processRowUpdate: handleProcessRowUpdate up
\* to its await
handleSaveClick ==
    \E id \in rowModesModel :
        /\ ~PageCovered
        /\ CanCall
        /\ id \in RowIds
        /\ \E completion \in EditedCompletions, remarks \in EditedRemarks(RowById(id)) :
            LET oldRow == RowById(id)
                newRow == [oldRow EXCEPT !.actualCompletion = completion, !.remarks = remarks]
                update == RowUpdate(newRow, oldRow)
            IN /\ rowModesModel' = rowModesModel \ {id}
               /\ IF IssuesRequest(update)
                  THEN /\ isUpdating' = TRUE
                       /\ pending' = pending \cup {UpdateTaskRequest(id, update.payload, "row")}
                  ELSE UNCHANGED <<isUpdating, pending>>
        /\ UNCHANGED <<currentUser, authLoading, seasonDetails, taskList, loading,
                       selectedStatus, referenceTimeline>>

\* the remarks dialog's Save, shown when isCellEditable: RemarksModal.handleSave,
\* RemarksCell.handleSave and handleRemarkUpdate up to its await
handleRemarkUpdate ==
    \E id \in RowIds :
        /\ ~PageCovered
        /\ CanCall
        /\ RemarksDialogAllows(authLoading, currentUser, seasonDetails, RowById(id))
        /\ \E newRemarks \in EditedRemarks(RowById(id)) :
            pending' = pending \cup
                {UpdateTaskRequest(id, [EmptyPayload EXCEPT !.remarks = Some(newRemarks)], "remarks")}
        /\ isUpdating' = TRUE
        /\ UNCHANGED <<currentUser, authLoading, seasonDetails, taskList, loading,
                       rowModesModel, selectedStatus, referenceTimeline>>

\* updateTaskInSeason returns {season, tasks}: handleProcessRowUpdate sets both,
\* handleRemarkUpdate sets the tasks
UpdateTaskReturns(req, season, tasks) ==
    /\ taskList' = SortByOrder(tasks)
    /\ IF req.via = "row"
       THEN /\ seasonDetails' = Some(season)
            /\ selectedStatus' = SelectedStatusEffect(Some(season), selectedStatus)
       ELSE UNCHANGED <<seasonDetails, selectedStatus>>
    /\ referenceTimeline' =
            ReferenceTimelineEffect(SortByOrder(tasks), seasonDetails', referenceTimeline)
    /\ isUpdating' = FALSE
    /\ pending' = pending \ {req}
    /\ UNCHANGED <<currentUser, authLoading, loading, rowModesModel>>

UpdateTaskSuccess ==
    \E req \in pending :
        /\ req.op = "updateTaskInSeason"
        /\ \E season \in Seasons, tasks \in UpdatedArrays(taskList, req.id, req.payload) :
            UpdateTaskReturns(req, season, tasks)

\* the responses of updateTaskInSeason that lack season, tasks or both (null
\* and {} among them): which of the two keys hold a value
MalformedTaskResponses ==
    {[season |-> FALSE, tasks |-> FALSE],
     [season |-> TRUE, tasks |-> FALSE],
     [season |-> FALSE, tasks |-> TRUE]}

\* if (response && response.season && response.tasks)
RowResponseAccepted(response) == response.season /\ response.tasks

\* if (response && response.tasks)
RemarksResponseAccepted(response) == response.tasks

ResponseAccepted(req, response) ==
    IF req.via = "row" THEN RowResponseAccepted(response)
    ELSE RemarksResponseAccepted(response)

\* updateTaskInSeason returns such a response: the handler takes what its test
\* accepts, and throws into its catch block otherwise
UpdateTaskMalformed ==
    \E req \in pending, response \in MalformedTaskResponses :
        /\ req.op = "updateTaskInSeason"
        /\ IF ResponseAccepted(req, response)
           THEN \E tasks \in UpdatedArrays(taskList, req.id, req.payload) :
                    /\ taskList' = SortByOrder(tasks)
                    /\ referenceTimeline' =
                            ReferenceTimelineEffect(SortByOrder(tasks), seasonDetails,
                                                    referenceTimeline)
           ELSE UNCHANGED <<taskList, referenceTimeline>>
        /\ isUpdating' = FALSE
        /\ pending' = pending \ {req}
        /\ UNCHANGED <<currentUser, authLoading, seasonDetails, loading, rowModesModel,
                       selectedStatus>>

\* a catch block without the finally block behind it
UpdateTaskFailureGateKept ==
    \E req \in pending :
        /\ req.op = "updateTaskInSeason"
        /\ pending' = pending \ {req}
        /\ UNCHANGED <<currentUser, authLoading, seasonDetails, taskList, loading,
                       rowModesModel, isUpdating, selectedStatus, referenceTimeline>>

\* updateTaskInSeason throws
UpdateTaskFailure ==
    \E req \in pending :
        /\ req.op = "updateTaskInSeason"
        /\ isUpdating' = FALSE
        /\ pending' = pending \ {req}
        /\ UNCHANGED <<currentUser, authLoading, seasonDetails, taskList, loading,
                       rowModesModel, selectedStatus, referenceTimeline>>

\* the status control's onChange
SelectStatus ==
    /\ StatusControlShown
    /\ ~PageCovered
    /\ \E st \in SeasonStatuses : selectedStatus' = st
    /\ UNCHANGED <<currentUser, authLoading, seasonDetails, taskList, loading,
                   rowModesModel, isUpdating, referenceTimeline, pending>>

\* if (!selectedStatus || selectedStatus === seasonDetails.status) return
StatusUnselected(selected, season) == selected = ""

StatusUnchanged(selected, season) ==
    \/ selected = ""
    \/ selected = season[1].status

\* the Update Status button: handleStatusUpdate up to its await
handleStatusUpdate ==
    /\ StatusControlShown
    /\ ~PageCovered
    /\ CanCall
    /\ ~StatusUnchanged(selectedStatus, seasonDetails)
    /\ isUpdating' = TRUE
    /\ pending' = pending \cup {StatusRequest(selectedStatus, seasonDetails[1].status)}
    /\ UNCHANGED <<currentUser, authLoading, seasonDetails, taskList, loading,
                   rowModesModel, selectedStatus, referenceTimeline>>

\* updateSeasonStatus returns the season
StatusUpdateSuccess ==
    \E req \in pending :
        /\ req.op = "updateSeasonStatus"
        /\ \E season \in {x \in Seasons : x.status = req.status} :
            /\ seasonDetails' = Some(season)
            /\ selectedStatus' = SelectedStatusEffect(Some(season), selectedStatus)
            /\ referenceTimeline' =
                    ReferenceTimelineEffect(taskList, Some(season), referenceTimeline)
        /\ isUpdating' = FALSE
        /\ pending' = pending \ {req}
        /\ UNCHANGED <<currentUser, authLoading, taskList, loading, rowModesModel>>

\* updateSeasonStatus returns no season (undefined or null): setSeasonDetails
\* stores it, and neither effect finds a season to follow
StatusUpdateMalformed ==
    \E req \in pending :
        /\ req.op = "updateSeasonStatus"
        /\ seasonDetails' = None
        /\ selectedStatus' = SelectedStatusEffect(None, selectedStatus)
        /\ referenceTimeline' = ReferenceTimelineEffect(taskList, None, referenceTimeline)
        /\ isUpdating' = FALSE
        /\ pending' = pending \ {req}
        /\ UNCHANGED <<currentUser, authLoading, taskList, loading, rowModesModel>>

\* updateSeasonStatus throws: the selection goes back to the captured status
StatusUpdateFailure ==
    \E req \in pending :
        /\ req.op = "updateSeasonStatus"
        /\ selectedStatus' = req.captured
        /\ isUpdating' = FALSE
        /\ pending' = pending \ {req}
        /\ UNCHANGED <<currentUser, authLoading, seasonDetails, taskList, loading,
                       rowModesModel, referenceTimeline>>

\* the names the EditSeasonModal's text field can hold at Save
SeasonNames == {"Spring", "Summer"}

\* the Edit Season Details button, rendered for the roles 'Admin' and 'Planner'
OpenEditModal ==
    /\ ~PageCovered
    /\ currentUser # None
    /\ currentUser[1].role \in {"Admin", "Planner"}
    /\ ~editModalOpen
    /\ editModalOpen' = TRUE
    /\ UNCHANGED <<currentUser, authLoading, seasonDetails, taskList, loading, rowModesModel,
                   isUpdating, selectedStatus, referenceTimeline, pending>>

\* the modal's Cancel button and the Dialog's onClose
CloseEditModal ==
    /\ EditSeasonModalShown
    /\ editModalOpen' = FALSE
    /\ UNCHANGED <<currentUser, authLoading, seasonDetails, taskList, loading, rowModesModel,
                   isUpdating, selectedStatus, referenceTimeline, pending>>

\* the modal's Save button, never disabled: EditSeasonModal.handleSave and
\* handleSaveSeasonDetails up to its await
handleSaveSeasonDetails ==
    /\ EditSeasonModalShown
    /\ CanCall
    /\ \E data \in SeasonNames :
        /\ DetailsRequest(data) \notin pending
        /\ pending' = pending \cup {DetailsRequest(data)}
    /\ isUpdating' = TRUE
    /\ UNCHANGED <<currentUser, authLoading, seasonDetails, taskList, loading, rowModesModel,
                   selectedStatus, referenceTimeline, editModalOpen>>

\* updateSeasonDetails returns the season
DetailsSaveSuccess ==
    \E req \in pending :
        /\ req.op = "updateSeasonDetails"
        /\ \E season \in Seasons :
            /\ seasonDetails' = Some(season)
            /\ selectedStatus' = SelectedStatusEffect(Some(season), selectedStatus)
            /\ referenceTimeline' =
                    ReferenceTimelineEffect(taskList, Some(season), referenceTimeline)
        /\ editModalOpen' = FALSE
        /\ isUpdating' = FALSE
        /\ pending' = pending \ {req}
        /\ UNCHANGED <<currentUser, authLoading, taskList, loading, rowModesModel>>

\* updateSeasonDetails returns no season (undefined or null)
DetailsSaveMalformed ==
    \E req \in pending :
        /\ req.op = "updateSeasonDetails"
        /\ seasonDetails' = None
        /\ selectedStatus' = SelectedStatusEffect(None, selectedStatus)
        /\ referenceTimeline' = ReferenceTimelineEffect(taskList, None, referenceTimeline)
        /\ editModalOpen' = FALSE
        /\ isUpdating' = FALSE
        /\ pending' = pending \ {req}
        /\ UNCHANGED <<currentUser, authLoading, taskList, loading, rowModesModel>>

\* a catch block that clears the snapshot, as the one of fetchSeasonDetails does
DetailsSaveFailureClearing ==
    \E req \in pending :
        /\ req.op = "updateSeasonDetails"
        /\ seasonDetails' = None
        /\ taskList' = <<>>
        /\ isUpdating' = FALSE
        /\ pending' = pending \ {req}
        /\ UNCHANGED <<currentUser, authLoading, loading, rowModesModel, selectedStatus,
                       referenceTimeline, editModalOpen>>

\* updateSeasonDetails throws
DetailsSaveFailure ==
    \E req \in pending :
        /\ req.op = "updateSeasonDetails"
        /\ isUpdating' = FALSE
        /\ pending' = pending \ {req}
        /\ UNCHANGED <<currentUser, authLoading, seasonDetails, taskList, loading,
                       rowModesModel, selectedStatus, referenceTimeline, editModalOpen>>

TimelineIdle ==
    /\ tlTasks = <<>>
    /\ tlCreatedAt = 0
    /\ tlResult = None

GuardsIdle ==
    /\ guardInput = None
    /\ guardResult = None

RowUpdateIdle ==
    /\ rowInput = None
    /\ rowResult = None

AttemptsIdle == attempt = None

\* the page after construction: the mount effect has called fetchSeasonDetails
Init ==
    /\ TimelineIdle
    /\ GuardsIdle
    /\ RowUpdateIdle
    /\ AttemptsIdle
    /\ currentUser = None
    /\ authLoading = TRUE
    /\ seasonDetails = None
    /\ taskList = <<>>
    /\ loading = TRUE
    /\ rowModesModel = {}
    /\ isUpdating = FALSE
    /\ selectedStatus = ""
    /\ referenceTimeline = EmptyMap
    /\ editModalOpen = FALSE
    /\ pending = {FetchRequest}

Next ==
    \/ (AuthLoaded /\ UNCHANGED <<tlVars, guardVars, rowVars, attemptVars, modalVars>>)
    \/ (FetchSuccess /\ UNCHANGED <<tlVars, guardVars, rowVars, attemptVars, modalVars>>)
    \/ (FetchFailure /\ UNCHANGED <<tlVars, guardVars, rowVars, attemptVars, modalVars>>)
    \/ (Reload /\ UNCHANGED <<tlVars, guardVars, rowVars, attemptVars, modalVars>>)
    \/ (handleEditClick /\ UNCHANGED <<tlVars, guardVars, rowVars, attemptVars, modalVars>>)
    \/ (handleCellDoubleClick /\ UNCHANGED <<tlVars, guardVars, rowVars, attemptVars, modalVars>>)
    \/ (handleCancelClick /\ UNCHANGED <<tlVars, guardVars, rowVars, attemptVars, modalVars>>)
    \/ (handleSaveClick /\ UNCHANGED <<tlVars, guardVars, rowVars, attemptVars, modalVars>>)
    \/ (handleRemarkUpdate /\ UNCHANGED <<tlVars, guardVars, rowVars, attemptVars, modalVars>>)
    \/ (UpdateTaskSuccess /\ UNCHANGED <<tlVars, guardVars, rowVars, attemptVars, modalVars>>)
    \/ (UpdateTaskFailure /\ UNCHANGED <<tlVars, guardVars, rowVars, attemptVars, modalVars>>)
    \/ (SelectStatus /\ UNCHANGED <<tlVars, guardVars, rowVars, attemptVars, modalVars>>)
    \/ (handleStatusUpdate /\ UNCHANGED <<tlVars, guardVars, rowVars, attemptVars, modalVars>>)
    \/ (StatusUpdateSuccess /\ UNCHANGED <<tlVars, guardVars, rowVars, attemptVars, modalVars>>)
    \/ (StatusUpdateFailure /\ UNCHANGED <<tlVars, guardVars, rowVars, attemptVars, modalVars>>)

Spec == Init /\ [][Next]_vars

----------------------------------------------------------------------------
(* Specification of the season controls: the status control, the          *)
(* EditSeasonModal and the remarks dialog, from a snapshot loaded by a user *)
(* who is shown the controls. Spec is the page while the modal stays closed *)

\* what a handler reported: the entry point, the row, the outcome and the
\* payload built when it returned
Report(entry, id, outcome, payload) ==
    [entry |-> entry, id |-> id, outcome |-> outcome, payload |-> payload]

\* the try block ran to its end
Returned(call) == attempt' = Some(Report(call, 0, "returned", EmptyPayload))

\* the catch block ran
Failed(call) == attempt' = Some(Report(call, 0, "failed", EmptyPayload))

\* the call returned a malformed response
Malformed(call) == attempt' = Some(Report(call, 0, "malformed", EmptyPayload))

InitSeason ==
    /\ \E u \in {x \in Users : x.role \in {"Admin", "Planner"}},
          season \in Seasons, tasks \in TaskArrays("chain") :
        /\ currentUser = Some(u)
        /\ seasonDetails = Some(season)
        /\ taskList = SortByOrder(tasks)
        /\ selectedStatus = SelectedStatusEffect(Some(season), "")
        /\ referenceTimeline = ReferenceTimelineEffect(SortByOrder(tasks), Some(season), EmptyMap)
    /\ authLoading = FALSE
    /\ loading = FALSE
    /\ rowModesModel = {}
    /\ isUpdating = FALSE
    /\ editModalOpen = FALSE
    /\ pending = {}
    /\ TimelineIdle
    /\ GuardsIdle
    /\ RowUpdateIdle
    /\ AttemptsIdle

NextSeason ==
    \/ (handleRemarkUpdate /\ UNCHANGED <<tlVars, guardVars, rowVars, attemptVars, modalVars>>)
    \/ (UpdateTaskSuccess /\ Returned("updateTaskInSeason") /\ UNCHANGED <<tlVars, guardVars, rowVars, modalVars>>)
    \/ (UpdateTaskFailure /\ Failed("updateTaskInSeason") /\ UNCHANGED <<tlVars, guardVars, rowVars, modalVars>>)
    \/ (SelectStatus /\ UNCHANGED <<tlVars, guardVars, rowVars, attemptVars, modalVars>>)
    \/ (handleStatusUpdate /\ UNCHANGED <<tlVars, guardVars, rowVars, attemptVars, modalVars>>)
    \/ (StatusUpdateSuccess /\ Returned("updateSeasonStatus") /\ UNCHANGED <<tlVars, guardVars, rowVars, modalVars>>)
    \/ (StatusUpdateFailure /\ Failed("updateSeasonStatus") /\ UNCHANGED <<tlVars, guardVars, rowVars, modalVars>>)
    \/ (OpenEditModal /\ UNCHANGED <<tlVars, guardVars, rowVars, attemptVars>>)
    \/ (CloseEditModal /\ UNCHANGED <<tlVars, guardVars, rowVars, attemptVars>>)
    \/ (handleSaveSeasonDetails /\ UNCHANGED <<tlVars, guardVars, rowVars, attemptVars>>)
    \/ (DetailsSaveSuccess /\ Returned("updateSeasonDetails") /\ UNCHANGED <<tlVars, guardVars, rowVars>>)
    \/ (DetailsSaveFailure /\ Failed("updateSeasonDetails") /\ UNCHANGED <<tlVars, guardVars, rowVars>>)
    \/ (UpdateTaskMalformed /\ Malformed("updateTaskInSeason") /\ UNCHANGED <<tlVars, guardVars, rowVars, modalVars>>)
    \/ (StatusUpdateMalformed /\ Malformed("updateSeasonStatus") /\ UNCHANGED <<tlVars, guardVars, rowVars, modalVars>>)
    \/ (DetailsSaveMalformed /\ Malformed("updateSeasonDetails") /\ UNCHANGED <<tlVars, guardVars, rowVars>>)

SpecSeason == InitSeason /\ [][NextSeason]_vars

----------------------------------------------------------------------------
(* Specification of the busy gate: the four handlers that raise it, with   *)
(* the grid's row editing, called on a loaded snapshot until a call has    *)
(* returned, and every return of the calls in flight, each call returning  *)
(* at some time                                                            *)

\* no awaited call has settled yet
NoCallReturned == attempt = None

NextGate ==
    \/ (NoCallReturned /\ handleCellDoubleClick /\ UNCHANGED <<tlVars, guardVars, rowVars, attemptVars, modalVars>>)
    \/ (NoCallReturned /\ handleSaveClick /\ UNCHANGED <<tlVars, guardVars, rowVars, attemptVars, modalVars>>)
    \/ (NoCallReturned /\ handleRemarkUpdate /\ UNCHANGED <<tlVars, guardVars, rowVars, attemptVars, modalVars>>)
    \/ (NoCallReturned /\ SelectStatus /\ UNCHANGED <<tlVars, guardVars, rowVars, attemptVars, modalVars>>)
    \/ (NoCallReturned /\ handleStatusUpdate /\ UNCHANGED <<tlVars, guardVars, rowVars, attemptVars, modalVars>>)
    \/ (NoCallReturned /\ OpenEditModal /\ UNCHANGED <<tlVars, guardVars, rowVars, attemptVars>>)
    \/ (NoCallReturned /\ CloseEditModal /\ UNCHANGED <<tlVars, guardVars, rowVars, attemptVars>>)
    \/ (NoCallReturned /\ handleSaveSeasonDetails /\ UNCHANGED <<tlVars, guardVars, rowVars, attemptVars>>)
    \/ (UpdateTaskFailure /\ Failed("updateTaskInSeason") /\ UNCHANGED <<tlVars, guardVars, rowVars, modalVars>>)
    \/ (StatusUpdateFailure /\ Failed("updateSeasonStatus") /\ UNCHANGED <<tlVars, guardVars, rowVars, modalVars>>)
    \/ (DetailsSaveFailure /\ Failed("updateSeasonDetails") /\ UNCHANGED <<tlVars, guardVars, rowVars>>)
    \/ (UpdateTaskMalformed /\ Malformed("updateTaskInSeason") /\ UNCHANGED <<tlVars, guardVars, rowVars, modalVars>>)
    \/ (StatusUpdateMalformed /\ Malformed("updateSeasonStatus") /\ UNCHANGED <<tlVars, guardVars, rowVars, modalVars>>)
    \/ (DetailsSaveMalformed /\ Malformed("updateSeasonDetails") /\ UNCHANGED <<tlVars, guardVars, rowVars>>)
    \/ (UpdateTaskSuccess /\ Returned("updateTaskInSeason") /\ UNCHANGED <<tlVars, guardVars, rowVars, modalVars>>)
    \/ (StatusUpdateSuccess /\ Returned("updateSeasonStatus") /\ UNCHANGED <<tlVars, guardVars, rowVars, modalVars>>)
    \/ (DetailsSaveSuccess /\ Returned("updateSeasonDetails") /\ UNCHANGED <<tlVars, guardVars, rowVars>>)

\* an awaited call settles: a step of a handler from its await on
CallReturns ==
    \/ (UpdateTaskFailure /\ Failed("updateTaskInSeason") /\ UNCHANGED <<tlVars, guardVars, rowVars, modalVars>>)
    \/ (StatusUpdateFailure /\ Failed("updateSeasonStatus") /\ UNCHANGED <<tlVars, guardVars, rowVars, modalVars>>)
    \/ (DetailsSaveFailure /\ Failed("updateSeasonDetails") /\ UNCHANGED <<tlVars, guardVars, rowVars>>)
    \/ (UpdateTaskMalformed /\ Malformed("updateTaskInSeason") /\ UNCHANGED <<tlVars, guardVars, rowVars, modalVars>>)
    \/ (StatusUpdateMalformed /\ Malformed("updateSeasonStatus") /\ UNCHANGED <<tlVars, guardVars, rowVars, modalVars>>)
    \/ (DetailsSaveMalformed /\ Malformed("updateSeasonDetails") /\ UNCHANGED <<tlVars, guardVars, rowVars>>)
    \/ (UpdateTaskSuccess /\ Returned("updateTaskInSeason") /\ UNCHANGED <<tlVars, guardVars, rowVars, modalVars>>)
    \/ (StatusUpdateSuccess /\ Returned("updateSeasonStatus") /\ UNCHANGED <<tlVars, guardVars, rowVars, modalVars>>)
    \/ (DetailsSaveSuccess /\ Returned("updateSeasonDetails") /\ UNCHANGED <<tlVars, guardVars, rowVars>>)

SpecGate == InitSeason /\ [][NextGate]_vars /\ WF_vars(CallReturns)

----------------------------------------------------------------------------
(* Specification of the timeline calculator: one call on each input *)

\* the page as constructed, before its first fetch returns
PageConstructed ==
    /\ currentUser = None
    /\ authLoading = TRUE
    /\ seasonDetails = None
    /\ taskList = <<>>
    /\ loading = TRUE
    /\ rowModesModel = {}
    /\ isUpdating = FALSE
    /\ selectedStatus = ""
    /\ referenceTimeline = EmptyMap
    /\ editModalOpen = FALSE
    /\ pending = {}

InitTimeline ==
    /\ \E in \in TimelineInputs :
        /\ tlTasks = in.tasks
        /\ tlCreatedAt = in.created
    /\ tlResult = None
    /\ GuardsIdle
    /\ RowUpdateIdle
    /\ AttemptsIdle
    /\ PageConstructed

Calculate ==
    /\ tlResult = None
    /\ tlResult' = Some(TimelineRun(tlTasks, tlCreatedAt))
    /\ UNCHANGED <<tlTasks, tlCreatedAt>>
    /\ UNCHANGED <<guardVars, rowVars, attemptVars, pageVars>>

NextTimeline == Calculate

SpecTimeline == InitTimeline /\ [][NextTimeline]_vars

----------------------------------------------------------------------------
(* Specification of the edit guards: every guard evaluated on each input *)

\* the rows of the guards' inputs: the rows of the "chain" graph with every
\* choice of predecessor lists and statuses
GuardArrays ==
    {[i \in 1..MaxRows |-> [Row("chain", i, st[i]) EXCEPT !.precedingTasks = preds[i]]] :
        preds \in [1..MaxRows -> PredLists(MaxRows)],
        st \in [1..MaxRows -> Statuses]}

GuardInputs ==
    {[user |-> u, authLoading |-> (u = None), season |-> s, tasks |-> a] :
        u \in {None} \cup {Some(x) : x \in Users},
        s \in {None} \cup {Some(x) : x \in Seasons},
        a \in GuardArrays}

InitGuards ==
    /\ guardInput \in {Some(in) : in \in GuardInputs}
    /\ guardResult = None
    /\ TimelineIdle
    /\ RowUpdateIdle
    /\ AttemptsIdle
    /\ PageConstructed

\* what each entry point decides for each row, and what isTaskActionable says
Evaluate ==
    /\ guardResult = None
    /\ LET in == guardInput[1]
       IN guardResult' = Some([i \in 1..Len(in.tasks) |->
            [editGuard |-> EditClickGuard(in.user, in.tasks[i], in.tasks),
             cellEditable |-> CellEditable(in.authLoading, in.user, in.season, in.tasks[i]),
             editAction |-> EditActionAllows(in.authLoading, in.user, in.season,
                                             in.tasks[i], in.tasks),
             doubleClick |-> [f \in Fields |-> DoubleClickAllows(in.user, f, in.tasks[i])],
             doubleClickPrevented |->
                    [f \in Fields |-> DoubleClickPrevented(in.user, f, in.tasks[i])],
             remarksDialog |-> RemarksDialogAllows(in.authLoading, in.user, in.season,
                                                   in.tasks[i]),
             actionable |-> isTaskActionable(in.tasks[i], in.tasks)]])
    /\ UNCHANGED <<guardInput, tlVars, rowVars, attemptVars, pageVars>>

NextGuards == Evaluate

SpecGuards == InitGuards /\ [][NextGuards]_vars

----------------------------------------------------------------------------
(* Specification of handleProcessRowUpdate: one call on each pair of rows *)

\* the rows as the grid holds them before an edit: a completed row carries any
\* completion instant, any other row carries none
StoredRows ==
    {[Row(g, i, st) EXCEPT !.actualCompletion = c] :
        g \in RowGraphs, i \in 1..MaxRows, st \in Statuses, c \in EditedCompletions}

RowUpdateInputs ==
    {[oldRow |-> old,
      newRow |-> [old EXCEPT !.actualCompletion = completion, !.remarks = remarks]] :
        old \in {r \in StoredRows : (r.status = "completed") <=> (r.actualCompletion # None)},
        completion \in EditedCompletions,
        remarks \in {"", "note", "edited"}}

InitRowUpdate ==
    /\ rowInput \in {Some(in) : in \in RowUpdateInputs}
    /\ rowResult = None
    /\ TimelineIdle
    /\ GuardsIdle
    /\ AttemptsIdle
    /\ PageConstructed

ProcessRowUpdate ==
    /\ rowResult = None
    /\ rowResult' = Some(RowUpdate(rowInput[1].newRow, rowInput[1].oldRow))
    /\ UNCHANGED <<rowInput, tlVars, guardVars, attemptVars, pageVars>>

NextRowUpdate == ProcessRowUpdate

SpecRowUpdate == InitRowUpdate /\ [][NextRowUpdate]_vars

----------------------------------------------------------------------------
(* Specification of the handlers called on a loaded snapshot: each handler, *)
(* with the branches that end in an alert or a rejection                    *)

InitAttempts ==
    /\ \E u \in Users, season \in Seasons, tasks \in AllTaskArrays :
        /\ currentUser = Some(u)
        /\ seasonDetails = Some(season)
        /\ taskList = SortByOrder(tasks)
        /\ selectedStatus = SelectedStatusEffect(Some(season), "")
        /\ referenceTimeline = ReferenceTimelineEffect(SortByOrder(tasks), Some(season), EmptyMap)
    /\ authLoading = FALSE
    /\ loading = FALSE
    /\ rowModesModel = {}
    /\ isUpdating = FALSE
    /\ editModalOpen = FALSE
    /\ pending = {}
    /\ attempt = None
    /\ TimelineIdle
    /\ GuardsIdle
    /\ RowUpdateIdle

\* handleEditClick, called by the Edit action that isCellEditable enables
AttemptEditClick ==
    \E id \in RowIds :
        /\ ~isUpdating
        /\ id \notin rowModesModel
        /\ isCellEditable(RowById(id))
        /\ LET decision == EditClickGuard(currentUser, RowById(id), taskList)
           IN /\ attempt' = Some(Report("handleEditClick", id, decision, EmptyPayload))
              /\ rowModesModel' = IF decision = "Allow"
                                  THEN rowModesModel \cup {id}
                                  ELSE rowModesModel
        /\ UNCHANGED <<currentUser, authLoading, seasonDetails, taskList, loading,
                       isUpdating, selectedStatus, referenceTimeline, pending>>

\* handleCellDoubleClick, then the grid's default unless it was prevented
AttemptCellDoubleClick ==
    \E id \in RowIds, field \in Fields :
        /\ ~isUpdating
        /\ id \notin rowModesModel
        /\ LET prevented == DoubleClickPrevented(currentUser, field, RowById(id))
           IN /\ attempt' = Some(Report("handleCellDoubleClick", id,
                                        IF prevented THEN "CompletedLocked"
                                        ELSE IF ColumnEditable(field) THEN "Allow"
                                        ELSE "NotEditable",
                                        EmptyPayload))
              /\ rowModesModel' = IF ~prevented /\ ColumnEditable(field)
                                  THEN rowModesModel \cup {id}
                                  ELSE rowModesModel
        /\ UNCHANGED <<currentUser, authLoading, seasonDetails, taskList, loading,
                       isUpdating, selectedStatus, referenceTimeline, pending>>

\* handleSaveClick and handleProcessRowUpdate up to its await
AttemptSave ==
    \E id \in rowModesModel :
        /\ ~isUpdating
        /\ \E completion \in EditedCompletions, remarks \in EditedRemarks(RowById(id)) :
            LET oldRow == RowById(id)
                newRow == [oldRow EXCEPT !.actualCompletion = completion, !.remarks = remarks]
                update == RowUpdate(newRow, oldRow)
            IN /\ rowModesModel' = rowModesModel \ {id}
               /\ attempt' = Some(Report("handleProcessRowUpdate", id,
                                         IF update.outcome = "rejected"
                                         THEN "InvalidCompletionDate" ELSE update.outcome,
                                         update.payload))
               /\ IF IssuesRequest(update)
                  THEN /\ isUpdating' = TRUE
                       /\ pending' = pending \cup {UpdateTaskRequest(id, update.payload, "row")}
                  ELSE UNCHANGED <<isUpdating, pending>>
        /\ UNCHANGED <<currentUser, authLoading, seasonDetails, taskList, loading,
                       selectedStatus, referenceTimeline>>

\* the status control's onChange
AttemptSelectStatus ==
    /\ SelectStatus
    /\ attempt' = Some(Report("setSelectedStatus", 0, selectedStatus', EmptyPayload))

\* handleStatusUpdate up to its await, whatever the selection
AttemptStatusUpdate ==
    /\ StatusControlShown
    /\ ~isUpdating
    /\ IF StatusUnchanged(selectedStatus, seasonDetails)
       THEN /\ attempt' = Some(Report("handleStatusUpdate", 0, "returned", EmptyPayload))
            /\ UNCHANGED <<isUpdating, pending>>
       ELSE /\ attempt' = Some(Report("handleStatusUpdate", 0, "request", EmptyPayload))
            /\ isUpdating' = TRUE
            /\ pending' = pending \cup {StatusRequest(selectedStatus, seasonDetails[1].status)}
    /\ UNCHANGED <<currentUser, authLoading, seasonDetails, taskList, loading,
                   rowModesModel, selectedStatus, referenceTimeline>>

NextAttempts ==
    \/ (AttemptEditClick /\ UNCHANGED <<tlVars, guardVars, rowVars, modalVars>>)
    \/ (AttemptCellDoubleClick /\ UNCHANGED <<tlVars, guardVars, rowVars, modalVars>>)
    \/ (AttemptSave /\ UNCHANGED <<tlVars, guardVars, rowVars, modalVars>>)
    \/ (AttemptSelectStatus /\ UNCHANGED <<tlVars, guardVars, rowVars, modalVars>>)
    \/ (AttemptStatusUpdate /\ UNCHANGED <<tlVars, guardVars, rowVars, modalVars>>)

SpecAttempts == InitAttempts /\ [][NextAttempts]_vars

----------------------------------------------------------------------------
(* The precedence graph, as the claims speak of it *)

Range(s) == {s[i] : i \in 1..Len(s)}

Max(S) == CHOOSE x \in S : \A y \in S : y <= x

\* the positions of the tasks that the task at position i names as predecessors
PredsOf(tasks, i) ==
    {j \in 1..Len(tasks) : tasks[j].order \in Range(tasks[i].precedingTasks)}

\* the task at position i names a code that no task holds
HasDangling(tasks, i) ==
    \E c \in Range(tasks[i].precedingTasks) : \A j \in 1..Len(tasks) : tasks[j].order # c

RECURSIVE Closure(_, _, _)
Closure(tasks, S, k) ==
    IF k = 0 THEN S
    ELSE Closure(tasks, S \cup UNION {PredsOf(tasks, j) : j \in S}, k - 1)

\* every position reachable from i along one or more precedence edges
Ancestors(tasks, i) == Closure(tasks, PredsOf(tasks, i), Len(tasks))

OnCycle(tasks, i) == i \in Ancestors(tasks, i)

\* i is in X or depends, directly or transitively, on a member of X
DependsOn(tasks, i, X) == (Ancestors(tasks, i) \cup {i}) \cap X # {}

CyclePositions(tasks) == {i \in 1..Len(tasks) : OnCycle(tasks, i)}

DanglingPositions(tasks) == {i \in 1..Len(tasks) : HasDangling(tasks, i)}

Resolved(i) == tlTasks[i]._id \in DOMAIN tlResult[1].timeline

Entry(i) == tlResult[1].timeline[tlTasks[i]._id]

----------------------------------------------------------------------------
(* C6: every task that calculateReferenceTimeline resolves starts at the   *)
(* later of the season's createdAt and the latest end among its            *)
(* predecessors (all of which are resolved), so at createdAt when it has   *)
(* no predecessors, and ends exactly leadTime days after its start; for    *)
(* createdAt 2024-01-01, A (5 days) and B (3 days, after A) this gives     *)
(* A = {01-01, 01-06} and B = {01-06, 01-09}.                              *)
C6_ResolvedDates ==
    tlResult # None =>
        /\ \A i \in 1..Len(tlTasks) : Resolved(i) =>
            /\ \A j \in PredsOf(tlTasks, i) : Resolved(j)
            /\ ~HasDangling(tlTasks, i)
            /\ Entry(i).start =
                    Max({tlCreatedAt} \cup {Entry(j).end : j \in PredsOf(tlTasks, i)})
            /\ tlTasks[i].precedingTasks = <<>> => Entry(i).start = tlCreatedAt
            /\ StartOfDay(Entry(i).end) - StartOfDay(Entry(i).start)
                    = tlTasks[i].leadTime * DayLength
            /\ Entry(i).end % DayLength = Entry(i).start % DayLength
        /\ (tlTasks = ExampleGraph /\ tlCreatedAt = 0) =>
            tlResult[1].timeline =
                (1 :> [start |-> 0, end |-> 5 * DayLength])
                @@ (2 :> [start |-> 5 * DayLength, end |-> 8 * DayLength])

\* a resolved task with two resolved predecessors that end at different
\* instants, the later one named first
C6_Witness ==
    /\ tlResult # None
    /\ \E i \in 1..Len(tlTasks) :
        /\ Resolved(i)
        /\ Len(tlTasks[i].precedingTasks) = 2
        /\ tlTasks[i].leadTime > 0
        /\ \E j, k \in PredsOf(tlTasks, i) :
            /\ tlTasks[j].order = tlTasks[i].precedingTasks[1]
            /\ tlTasks[k].order = tlTasks[i].precedingTasks[2]
            /\ Entry(j).end > Entry(k).end

----------------------------------------------------------------------------
(* C7: on a graph with a precedence cycle of any size (a task naming its   *)
(* own code included) calculateReferenceTimeline returns after at most     *)
(* taskCount + 5 passes, and no task on a cycle, nor any task depending on *)
(* one directly or transitively, is in the returned map.                   *)
C7_CyclesUnresolved ==
    (tlResult # None /\ CyclePositions(tlTasks) # {}) =>
        /\ tlResult[1].iterations <= Len(tlTasks) + 5
        /\ \A i \in 1..Len(tlTasks) :
                DependsOn(tlTasks, i, CyclePositions(tlTasks)) => ~Resolved(i)

\* two tasks that name each other, and a third task that is resolved
C7_Witness ==
    /\ tlResult # None
    /\ \E i, j \in 1..Len(tlTasks) :
        /\ i # j
        /\ i \in PredsOf(tlTasks, j)
        /\ j \in PredsOf(tlTasks, i)
    /\ \E i \in 1..Len(tlTasks) : Resolved(i)

----------------------------------------------------------------------------
(* C8: a task naming a code that no task holds is never in the returned    *)
(* map, and every task that does not depend on such a task, directly or    *)
(* transitively, gets the entry it gets when the tasks that do depend on   *)
(* one are left out of the graph.                                          *)
WithoutDangling(tasks) ==
    LET dropped == {tasks[i]._id : i \in {k \in 1..Len(tasks) :
                        DependsOn(tasks, k, DanglingPositions(tasks))}}
    IN SelectSeq(tasks, LAMBDA t : t._id \notin dropped)

C8_DanglingUnresolved ==
    (tlResult # None /\ DanglingPositions(tlTasks) # {}) =>
        LET rest == calculateReferenceTimeline(WithoutDangling(tlTasks), tlCreatedAt)
        IN \A i \in 1..Len(tlTasks) :
            /\ HasDangling(tlTasks, i) => ~Resolved(i)
            /\ ~DependsOn(tlTasks, i, DanglingPositions(tlTasks)) =>
                /\ Resolved(i) <=> tlTasks[i]._id \in DOMAIN rest
                /\ Resolved(i) => Entry(i) = rest[tlTasks[i]._id]

\* a task naming only the unheld code, a task depending on it, and a third
\* task, without predecessors, that is resolved
C8_Witness ==
    /\ tlResult # None
    /\ \E i, j, k \in 1..Len(tlTasks) :
        /\ tlTasks[i].precedingTasks = <<CodeQ>>
        /\ i \in PredsOf(tlTasks, j)
        /\ ~Resolved(j)
        /\ ~DependsOn(tlTasks, k, DanglingPositions(tlTasks))
        /\ tlTasks[k].precedingTasks = <<>>
        /\ Resolved(k)

----------------------------------------------------------------------------
(* The actor and the task, as the claims speak of them *)

GUser == guardInput[1].user

GSeason == guardInput[1].season

GTasks == guardInput[1].tasks

Decision(i) == guardResult[1][i]

\* the actor's role is Admin or Planner in any letter case
ActorIsAdminOrPlanner(user) ==
    /\ user # None
    /\ user[1].role \in {"Admin", "admin", "ADMIN", "Planner", "planner", "PLANNER"}

\* the actor's department is named in task.responsible, letter for letter
DepartmentListed(user, task) ==
    /\ user # None
    /\ user[1].department.type # "undefined"
    /\ user[1].department.name \in Range(task.responsible)

\* the same, whatever the letter case
DepartmentListedAnyCase(user, task) ==
    /\ user # None
    /\ user[1].department.type # "undefined"
    /\ \E d \in Range(task.responsible) :
            {d, user[1].department.name} \in
                {{"Sales"}, {"sales"}, {"Sales", "sales"}, {"QA"}, {"qa"}, {"QA", "qa"}}

\* some code in precedingTasks names a task that is not completed, or no task
SomePredecessorOpen(tasks, i) ==
    \E c \in Range(tasks[i].precedingTasks) :
        \A j \in 1..Len(tasks) : tasks[j].order = c => tasks[j].status # "completed"

\* no entry point lets the actor edit row i
AllEntryPointsDeny(i) ==
    /\ ~Decision(i).editAction
    /\ \A f \in Fields : ~Decision(i).doubleClick[f]
    /\ ~Decision(i).remarksDialog

----------------------------------------------------------------------------
(* C1: while the loaded season's status is not Open, no step of a signed-in *)
(* actor issues an updateTaskInSeason request: every such request that a    *)
(* step adds to the calls in flight is added while the season is Open.      *)
C1_NoRequestUnlessOpen ==
    [][currentUser # None =>
        \A req \in pending' \ pending :
            req.op = "updateTaskInSeason" => SeasonIsOpen(seasonDetails)]_vars

----------------------------------------------------------------------------
(* C2: a blocked task is editable by no actor, Admin and Planner included: *)
(* the row's Edit action, a double click on its actualCompletion cell and  *)
(* its remarks dialog all deny, in every season state.                     *)
C2_BlockedNeverEditable ==
    (guardResult # None /\ GUser # None /\ GSeason # None) =>
        \A i \in 1..Len(GTasks) : GTasks[i].status = "blocked" => AllEntryPointsDeny(i)

----------------------------------------------------------------------------
(* C3: a completed task is editable only by an actor whose role is Admin   *)
(* or Planner in any letter case: for such an actor no entry point reports *)
(* CompletedLocked, and for every other actor, whatever the department,    *)
(* handleEditClick reports CompletedLocked and every entry point denies.   *)
C3_CompletedLocked ==
    guardResult # None =>
        \A i \in 1..Len(GTasks) : GTasks[i].status = "completed" =>
            IF ActorIsAdminOrPlanner(GUser)
            THEN /\ Decision(i).editGuard = "Allow"
                 /\ \A f \in Fields : ~Decision(i).doubleClickPrevented[f]
                 /\ (GSeason # None /\ GSeason[1].status = "Open") => Decision(i).cellEditable
            ELSE /\ Decision(i).editGuard = "CompletedLocked"
                 /\ \A f \in {"actualCompletion", "remarks"} :
                        Decision(i).doubleClickPrevented[f]
                 /\ ~Decision(i).cellEditable
                 /\ AllEntryPointsDeny(i)

\* a completed task, an open season, and an actor of the role User whose
\* department is responsible for the task
C3_Witness ==
    /\ guardResult # None
    /\ GSeason # None
    /\ GSeason[1].status = "Open"
    /\ GUser # None
    /\ GUser[1].role = "User"
    /\ \E i \in 1..Len(GTasks) :
        /\ GTasks[i].status = "completed"
        /\ DepartmentListedAnyCase(GUser, GTasks[i])
        /\ Decision(i).editGuard = "CompletedLocked"

----------------------------------------------------------------------------
(* C4: for a pending task handleEditClick reports PredecessorsIncomplete   *)
(* exactly when the task is not actionable, that is when some code in      *)
(* precedingTasks names a task that is not completed or names no task; so  *)
(* the guard and isTaskActionable agree on every pending task.             *)
C4_PredecessorGuardFailClosed ==
    guardResult # None =>
        \A i \in 1..Len(GTasks) : GTasks[i].status = "pending" =>
            /\ SomePredecessorOpen(GTasks, i) =>
                    Decision(i).editGuard = "PredecessorsIncomplete"
            /\ (Decision(i).editGuard = "PredecessorsIncomplete") <=> ~Decision(i).actionable

----------------------------------------------------------------------------
(* C5: an actor who is not Admin/Planner and whose department is not in    *)
(* task.responsible is denied at every entry point; an actor who is        *)
(* Admin/Planner or whose department is in task.responsible is not stopped *)
(* by the department guard at any entry point.                             *)
C5_DepartmentGuard ==
    (guardResult # None /\ GUser # None /\ GSeason # None) =>
        \A i \in 1..Len(GTasks) :
            /\ (~ActorIsAdminOrPlanner(GUser) /\ ~DepartmentListedAnyCase(GUser, GTasks[i])) =>
                    AllEntryPointsDeny(i)
            /\ (ActorIsAdminOrPlanner(GUser) \/ DepartmentListed(GUser, GTasks[i])) =>
                /\ Decision(i).editGuard # "NotResponsibleDepartment"
                /\ (/\ GSeason # None
                    /\ GSeason[1].status = "Open"
                    /\ (GTasks[i].status = "completed" => ActorIsAdminOrPlanner(GUser)))
                        => Decision(i).cellEditable

----------------------------------------------------------------------------
(* C9: isTaskActionable is false for every completed or blocked task; for  *)
(* any other task it is true when precedingTasks is empty, and otherwise   *)
(* true exactly when every code in precedingTasks is held by a task of     *)
(* allTasks whose status is completed.                                     *)
C9_Actionable ==
    guardResult # None =>
        \A i \in 1..Len(GTasks) :
            /\ GTasks[i].status \in {"completed", "blocked"} => ~Decision(i).actionable
            /\ GTasks[i].status \notin {"completed", "blocked"} =>
                /\ GTasks[i].precedingTasks = <<>> => Decision(i).actionable
                /\ Decision(i).actionable <=>
                        \A c \in Range(GTasks[i].precedingTasks) :
                            \E j \in 1..Len(GTasks) :
                                GTasks[j].order = c /\ GTasks[j].status = "completed"

\* a pending task that is actionable behind a completed predecessor, and a
\* pending task that names the unheld code next to a completed predecessor
C9_Witness ==
    /\ guardResult # None
    /\ \E i, j \in 1..Len(GTasks) :
        /\ GTasks[i].status = "pending"
        /\ GTasks[i].precedingTasks = <<GTasks[j].order>>
        /\ GTasks[j].status = "completed"
        /\ Decision(i).actionable

----------------------------------------------------------------------------
\* the calendar day an instant falls on
DayOf(t) == t \div DayLength

EditedRow == rowInput[1].newRow

StoredRow == rowInput[1].oldRow

CompletionChangedToDate ==
    /\ EditedRow.actualCompletion # None
    /\ EditedRow.actualCompletion # StoredRow.actualCompletion

(* C10: when an edit changes actualCompletion to a date, it is rejected     *)
(* exactly when the day of the new date is before the day of                *)
(* computedDates.start; on the same day or a later day it is accepted and   *)
(* the request carries the new date.                                        *)
C10_RejectedIffEarlierDay ==
    (rowResult # None /\ CompletionChangedToDate) =>
        LET start == EditedRow.computedDates.start
            earlierDay == /\ start # None
                          /\ DayOf(EditedRow.actualCompletion[1]) < DayOf(start[1])
        IN /\ (rowResult[1].outcome = "rejected") <=> earlierDay
           /\ ~earlierDay =>
                /\ rowResult[1].outcome = "request"
                /\ rowResult[1].payload.actualCompletion =
                        Some(Some(toISOString(EditedRow.actualCompletion[1])))

\* the new date is on the day of computedDates.start, at an earlier instant of
\* that day, and the edit is accepted
C10_Witness ==
    /\ rowResult # None
    /\ CompletionChangedToDate
    /\ EditedRow.computedDates.start # None
    /\ EditedRow.actualCompletion[1] < EditedRow.computedDates.start[1]
    /\ DayOf(EditedRow.actualCompletion[1]) = DayOf(EditedRow.computedDates.start[1])
    /\ rowResult[1].outcome = "request"

----------------------------------------------------------------------------
\* the patch of the call: apiPayload when handleProcessRowUpdate goes on to
\* persistence or returns oldRow
Patch == rowResult[1].payload

PatchSetsDate ==
    /\ Patch.actualCompletion # None
    /\ Patch.actualCompletion[1] # None

(* C11: whenever the patch produced for an edit sets a non-null             *)
(* actualCompletion and the task's status is not completed, the patch holds *)
(* status = completed; when the patch sets no non-null actualCompletion, or *)
(* the task is already completed, the patch holds no status field.          *)
C11_DerivedStatus ==
    (rowResult # None /\ rowResult[1].outcome # "rejected") =>
        IF PatchSetsDate /\ StoredRow.status # "completed"
        THEN Patch.status = Some("completed")
        ELSE Patch.status = None

\* a completed task whose completion date is changed to another date: the
\* patch carries the date and no status
C11_Witness ==
    /\ rowResult # None
    /\ rowResult[1].outcome = "request"
    /\ StoredRow.status = "completed"
    /\ PatchSetsDate
    /\ Patch.status = None

----------------------------------------------------------------------------
\* the requests a step issues
Issued == pending' \ pending

\* the request carries a value that differs from the row it is about
CarriesChange(req) ==
    \/ /\ req.payload.remarks # None
       /\ req.payload.remarks[1] # RowById(req.id).remarks
    \/ /\ req.payload.actualCompletion # None
       /\ req.payload.actualCompletion[1] # CompletionString(RowById(req.id))

(* C12: an edit that changes neither remarks nor actualCompletion issues no *)
(* persistence request and does not raise the busy gate, for a row save and *)
(* for a remarks-dialog save: every updateTaskInSeason request a step       *)
(* issues carries a changed remarks or a changed actualCompletion.          *)
C12_UnchangedEditIsNoOp ==
    [][\A req \in Issued : req.op = "updateTaskInSeason" => CarriesChange(req)]_vars

----------------------------------------------------------------------------
\* the outcomes that reject an edit
Rejections ==
    {"InvalidCompletionDate", "CompletedLocked", "Blocked", "PredecessorsIncomplete",
     "NotResponsibleDepartment"}

(* C13: a rejected edit, by the completion date check or by the edit        *)
(* guards, mutates no state: the step that reports the rejection issues no  *)
(* request and leaves seasonDetails, taskList, referenceTimeline and the    *)
(* busy gate as they were, also when the edit changed remarks as well.      *)
C13_RejectionKeepsState ==
    [][(attempt' # attempt /\ attempt'[1].outcome \in Rejections) =>
            /\ Issued = {}
            /\ UNCHANGED <<seasonDetails, taskList, referenceTimeline, isUpdating, pending>>]_vars

\* a save rejected for its date although it changed remarks as well
C13_Witness ==
    /\ attempt # None
    /\ attempt[1].outcome = "InvalidCompletionDate"
    /\ attempt[1].payload.remarks # None
    /\ pending = {}
    /\ ~isUpdating

----------------------------------------------------------------------------
(* C14: the only status transition an edit patch causes is pending to       *)
(* completed: every updateTaskInSeason request a step issues either holds   *)
(* no status field, or holds status = completed for a task whose status in  *)
(* taskList is pending; none changes the status of a blocked task or of a   *)
(* completed task.                                                          *)
C14_OnlyPendingToCompleted ==
    [][\A req \in Issued :
            (req.op = "updateTaskInSeason" /\ req.payload.status # None) =>
                /\ req.payload.status = Some("completed")
                /\ RowById(req.id).status = "pending"]_vars

----------------------------------------------------------------------------
(* C18: a season-status update requested for the status the season has is   *)
(* a no-op: handleStatusUpdate issues no request, does not raise the busy   *)
(* gate and leaves seasonDetails and selectedStatus unchanged.              *)
C18_SameStatusIsNoOp ==
    [][(/\ attempt' # attempt
        /\ attempt'[1].entry = "handleStatusUpdate"
        /\ selectedStatus = seasonDetails[1].status) =>
            /\ Issued = {}
            /\ attempt'[1].outcome = "returned"
            /\ UNCHANGED <<pending, isUpdating, seasonDetails, selectedStatus>>]_vars

\* handleStatusUpdate has returned on a selection equal to the season's status,
\* after the selection was changed and changed back
C18_Witness ==
    /\ attempt # None
    /\ attempt[1].entry = "handleStatusUpdate"
    /\ attempt[1].outcome = "returned"
    /\ selectedStatus = seasonDetails[1].status
    /\ selectedStatus # "Open"
    /\ pending = {}
    /\ ~isUpdating

----------------------------------------------------------------------------
MutatingCalls == {"updateTaskInSeason", "updateSeasonStatus", "updateSeasonDetails"}

(* C15: at most one mutating persistence request (updateTaskInSeason,       *)
(* updateSeasonStatus, updateSeasonDetails) is outstanding at any time.     *)
C15_OneMutationInFlight ==
    Cardinality({req \in pending : req.op \in MutatingCalls}) <= 1

----------------------------------------------------------------------------
\* the step handles the failure of a mutating call: the call leaves the calls
\* in flight and its catch block reports
FailureHandled ==
    /\ attempt' # None
    /\ attempt'[1].outcome = "failed"
    /\ attempt'[1].entry \in MutatingCalls
    /\ pending' # pending
    /\ pending' \subseteq pending

(* C16: a failed mutating call (updateTaskInSeason, updateSeasonStatus or   *)
(* updateSeasonDetails throwing) leaves the snapshot untouched: the step    *)
(* that handles the failure changes neither seasonDetails nor taskList.     *)
C16_FailureKeepsSnapshot ==
    [][FailureHandled => UNCHANGED <<seasonDetails, taskList>>]_vars

\* updateSeasonDetails has failed: the modal is still open and the snapshot is
\* on display
C16_Witness ==
    /\ attempt = Some(Report("updateSeasonDetails", 0, "failed", EmptyPayload))
    /\ editModalOpen
    /\ pending = {}
    /\ ~isUpdating
    /\ seasonDetails # None
    /\ taskList # <<>>

----------------------------------------------------------------------------
(* C17: after every successful updateTaskInSeason call, issued by a row     *)
(* save or by a remarks save, the snapshot is the response: seasonDetails   *)
(* is the season returned and taskList holds the tasks returned, in display *)
(* order.                                                                   *)
C17_SnapshotIsResponse ==
    [][\A req \in pending :
         req.op = "updateTaskInSeason" =>
            \A season \in Seasons, tasks \in UpdatedArrays(taskList, req.id, req.payload) :
                UpdateTaskReturns(req, season, tasks) =>
                    /\ seasonDetails' = Some(season)
                    /\ taskList' = SortByOrder(tasks)]_vars

----------------------------------------------------------------------------
\* code a comes before code b letter by letter, for codes of one length
LettersBefore(a, b) ==
    \E k \in 1..Len(a) :
        /\ a[k] < b[k]
        /\ \A j \in 1..(k - 1) : a[j] = b[j]

\* the earlier code is shorter, or as long and not after the later one
InDisplayOrder(rows) ==
    \A i \in 1..(Len(rows) - 1) :
        \/ Len(rows[i].order) < Len(rows[i + 1].order)
        \/ /\ Len(rows[i].order) = Len(rows[i + 1].order)
           /\ ~LettersBefore(rows[i + 1].order, rows[i].order)

OrderCodes(rows) == [i \in 1..Len(rows) |-> rows[i].order]

(* C19: after any load or successful task update taskList is in display    *)
(* order: of every adjacent pair the earlier code is shorter than the later *)
(* one, or as long and not after it letter by letter; the codes Z, AA, B, A *)
(* are displayed as A, B, Z, AA.                                            *)
C19_DisplayOrder ==
    /\ InDisplayOrder(taskList)
    /\ OrderCodes(SortByOrder(UnsortedExample)) = <<CodeA, CodeB, CodeZ, CodeAA>>

\* a snapshot of several rows, returned with Z before A, is on display
C19_Witness ==
    /\ Len(taskList) > 1
    /\ seasonDetails # None
    /\ ~loading
    /\ pending = {}
    /\ taskList[1].order = CodeA
    /\ taskList[2].order = CodeZ

----------------------------------------------------------------------------
(* C20: the edit decision is one policy: for every actor, task and season   *)
(* state isCellEditable, which enables the Edit action, the                 *)
(* actualCompletion cell and the remarks dialog, allows the edit exactly    *)
(* when the checks run at the attempt, handleEditClick and                  *)
(* handleCellDoubleClick, allow it.                                         *)
C20_OnePolicy ==
    (guardResult # None /\ GUser # None /\ GSeason # None) =>
        \A i \in 1..Len(GTasks) :
            /\ Decision(i).cellEditable <=> (Decision(i).editGuard = "Allow")
            /\ Decision(i).cellEditable <=> ~Decision(i).doubleClickPrevented["actualCompletion"]

----------------------------------------------------------------------------
\* the first guard that fails for the actor, the season and row i, in the
\* order SeasonNotOpen, CompletedLocked, Blocked, PredecessorsIncomplete,
\* NotResponsibleDepartment; "Allow" when none fails
FirstFailingGuard(i) ==
    IF GSeason[1].status # "Open" THEN "SeasonNotOpen"
    ELSE IF GTasks[i].status = "completed" /\ ~ActorIsAdminOrPlanner(GUser)
        THEN "CompletedLocked"
    ELSE IF GTasks[i].status = "blocked" THEN "Blocked"
    ELSE IF GTasks[i].status = "pending" /\ ~Decision(i).actionable
        THEN "PredecessorsIncomplete"
    ELSE IF ~ActorIsAdminOrPlanner(GUser) /\ ~DepartmentListedAnyCase(GUser, GTasks[i])
        THEN "NotResponsibleDepartment"
    ELSE "Allow"

(* C21: the edit guards short-circuit in the order SeasonNotOpen,           *)
(* CompletedLocked, Blocked, PredecessorsIncomplete,                        *)
(* NotResponsibleDepartment: for every actor, task and season the denial    *)
(* handleEditClick reports is that of the first guard that fails, and the   *)
(* Edit action is allowed only when none of them fails.                     *)
C21_GuardPrecedence ==
    (guardResult # None /\ GUser # None /\ GSeason # None) =>
        \A i \in 1..Len(GTasks) :
            /\ Decision(i).editGuard = FirstFailingGuard(i)
            /\ Decision(i).editAction => FirstFailingGuard(i) = "Allow"

----------------------------------------------------------------------------
\* the number of tasks on the longest chain of precedence edges that ends at
\* position i, in a graph without cycles
RECURSIVE ChainLength(_, _)
ChainLength(tasks, i) ==
    IF PredsOf(tasks, i) = {} THEN 1
    ELSE 1 + Max({ChainLength(tasks, j) : j \in PredsOf(tasks, i)})

LongestPathLength(tasks) == Max({0} \cup {ChainLength(tasks, i) : i \in 1..Len(tasks)})

FullyResolvable(tasks) ==
    /\ CyclePositions(tasks) = {}
    /\ DanglingPositions(tasks) = {}

(* C22: on an acyclic precedence graph in which every predecessor code is   *)
(* held by a task, calculateReferenceTimeline gives every task an entry and *)
(* returns after at most as many passes of its outer loop as the longest    *)
(* chain of the graph has tasks, so below the taskCount + 5 failsafe bound, *)
(* whatever codes the tasks carry.                                          *)
C22_AcyclicResolved ==
    (tlResult # None /\ FullyResolvable(tlTasks)) =>
        /\ \A i \in 1..Len(tlTasks) : Resolved(i)
        /\ tlResult[1].iterations <= LongestPathLength(tlTasks)
        /\ tlResult[1].iterations < Len(tlTasks) + 5
        /\ ~tlResult[1].unresolved

\* a chain of MaxTasks tasks whose codes run against the precedence order: each
\* pass resolves one task
C22_Witness ==
    /\ tlResult # None
    /\ FullyResolvable(tlTasks)
    /\ Len(tlTasks) = MaxTasks
    /\ LongestPathLength(tlTasks) = MaxTasks
    /\ tlResult[1].iterations = MaxTasks
    /\ \A i \in 1..Len(tlTasks) : Resolved(i)

----------------------------------------------------------------------------
(* C23: after any sequence of loads, failed loads, reloads and updates,     *)
(* referenceTimeline is calculateReferenceTimeline of the current taskList  *)
(* and the current season's createdAt: the empty map when taskList is       *)
(* empty, and never entries computed from an earlier snapshot.              *)
C23_TimelineIsCurrent ==
    /\ taskList = <<>> => referenceTimeline = EmptyMap
    /\ (taskList # <<>> /\ seasonDetails # None) =>
            referenceTimeline = calculateReferenceTimeline(taskList, seasonDetails[1].createdAt)

----------------------------------------------------------------------------
PatchFields == {"remarks", "actualCompletion", "status"}

(* C24: the patch of a row edit that is not rejected holds exactly the      *)
(* fields that changed among remarks and actualCompletion, with the         *)
(* proposed values, plus the derived status: a field whose proposed value   *)
(* equals the committed one is not in the patch, the patch is empty exactly *)
(* when neither changed, and it never holds a field other than remarks,     *)
(* actualCompletion and status.                                             *)
C24_PatchIsDiff ==
    (rowResult # None /\ rowResult[1].outcome # "rejected") =>
        /\ DOMAIN Patch = PatchFields
        /\ (Patch.remarks # None) <=> (EditedRow.remarks # StoredRow.remarks)
        /\ Patch.remarks # None => Patch.remarks = Some(EditedRow.remarks)
        /\ (Patch.actualCompletion # None) <=>
                (EditedRow.actualCompletion # StoredRow.actualCompletion)
        /\ Patch.actualCompletion # None =>
                Patch.actualCompletion[1] =
                    (IF EditedRow.actualCompletion = None THEN None
                     ELSE Some(toISOString(EditedRow.actualCompletion[1])))
        /\ (Patch.status # None) => (Patch.actualCompletion # None)
        /\ (rowResult[1].outcome = "unchanged") <=>
                (/\ EditedRow.remarks = StoredRow.remarks
                 /\ EditedRow.actualCompletion = StoredRow.actualCompletion)

\* the completion date is moved to another instant of the same day and the
\* remarks are kept: the patch holds the date and no remarks
C24_Witness ==
    /\ rowResult # None
    /\ rowResult[1].outcome = "request"
    /\ StoredRow.actualCompletion # None
    /\ EditedRow.actualCompletion # None
    /\ EditedRow.actualCompletion # StoredRow.actualCompletion
    /\ DayOf(EditedRow.actualCompletion[1]) = DayOf(StoredRow.actualCompletion[1])
    /\ EditedRow.remarks = StoredRow.remarks
    /\ Patch.remarks = None
    /\ Patch.actualCompletion # None

----------------------------------------------------------------------------
(* C25: when a failed updateSeasonStatus call is handled, selectedStatus    *)
(* becomes the status of the seasonDetails held at that moment, the status  *)
(* last confirmed by persistence, and seasonDetails is left unchanged.      *)
C25_FailedStatusReverts ==
    [][(StatusUpdateFailure /\ seasonDetails # None) =>
            /\ seasonDetails' = seasonDetails
            /\ selectedStatus' = seasonDetails[1].status]_vars

----------------------------------------------------------------------------
\* the step handles a malformed response of a mutating call
MalformedHandled ==
    /\ attempt' # None
    /\ attempt'[1].outcome = "malformed"
    /\ attempt'[1].entry \in MutatingCalls
    /\ pending' # pending
    /\ pending' \subseteq pending

(* C26: when a mutating call returns a malformed response (updateTask       *)
(* without season or without tasks, updateSeasonStatus or                   *)
(* updateSeasonDetails without a season), the update is discarded: the step *)
(* that handles the response leaves seasonDetails and taskList as they      *)
(* were.                                                                    *)
C26_MalformedKeepsSnapshot ==
    [][MalformedHandled => UNCHANGED <<seasonDetails, taskList>>]_vars

----------------------------------------------------------------------------
(* C27: the busy gate is always released: whenever isUpdating is raised by  *)
(* handleProcessRowUpdate, handleRemarkUpdate, handleStatusUpdate or        *)
(* handleSaveSeasonDetails and the calls in flight return (with success, a  *)
(* malformed response or a failure), isUpdating becomes false again.        *)
C27_GateReleased == isUpdating ~> ~isUpdating

\* the gate is down and no call is in flight after updateSeasonDetails
\* returned a malformed response
C27_Witness ==
    /\ attempt = Some(Report("updateSeasonDetails", 0, "malformed", EmptyPayload))
    /\ ~isUpdating
    /\ pending = {}

----------------------------------------------------------------------------
ArrayOrders(n) ==
    {f \in [1..n -> 1..n] : \A i, j \in 1..n : i # j => f[i] # f[j]}

Permute(tasks, f) == [i \in 1..Len(tasks) |-> tasks[f[i]]]

UniqueCodes(tasks) ==
    \A i, j \in 1..Len(tasks) : i # j => tasks[i].order # tasks[j].order

(* C28: calculateReferenceTimeline does not depend on the order of its      *)
(* input array: for tasks with unique order codes and a fixed createdAt,    *)
(* every permutation of the array yields the map that the array itself      *)
(* yields, the same resolved ids with the same start and end.               *)
C28_ArrayOrderIndependent ==
    (tlResult # None /\ UniqueCodes(tlTasks)) =>
        \A f \in ArrayOrders(Len(tlTasks)) :
            calculateReferenceTimeline(Permute(tlTasks, f), tlCreatedAt)
                = tlResult[1].timeline

\* a resolved task that stands in the array before the predecessor it names,
\* in a graph that also holds a task left unresolved
C28_Witness ==
    /\ tlResult # None
    /\ UniqueCodes(tlTasks)
    /\ Len(tlTasks) = MaxTasks
    /\ \E i, j, k \in 1..Len(tlTasks) :
        /\ i < j
        /\ j \in PredsOf(tlTasks, i)
        /\ Resolved(i)
        /\ Entry(i).start = Entry(j).end
        /\ Entry(j).end > tlCreatedAt
        /\ ~Resolved(k)

====
